---- MODULE Spec2Model ----
(***************************************************************************)
(* Model of gemact/calculators.py, class LossModelCalculator: the four     *)
(* severity discretization methods (with the local-moments upper point     *)
(* adjuster) and the three aggregate-loss methods (FFT, Panjer recursion,  *)
(* Monte Carlo simulation).                                                *)
(*                                                                         *)
(* Floating point numbers are modelled by exact rationals <<num, den>> in  *)
(* lowest terms with den > 0.  The severity and frequency models are the   *)
(* duck-typed collaborators of the calculators; they are instantiated by   *)
(* a uniform severity family and a binomial frequency family, whose cdf,   *)
(* lev, pgf and pmf are rational.                                          *)
(***************************************************************************)
EXTENDS Integers, Sequences, FiniteSets, TLC

VARIABLES call, np_random_state

vars == <<call, np_random_state>>

(***************************************************************************)
(* Bounds of the model.                                                    *)
(***************************************************************************)
MaxNodes == 3
MaxAggrNodes == 4
MaxSim == 3
MaxClaims == 2
MaxSeed == 1

(***************************************************************************)
(* Exact rational arithmetic standing for float arithmetic.                *)
(***************************************************************************)
Abs(x) == IF x < 0 THEN -x ELSE x

RECURSIVE GCD(_, _)
GCD(a, b) == IF b = 0 THEN a ELSE GCD(b, a % b)

Rat(n, d) ==
    LET s == IF d < 0 THEN -1 ELSE 1
        g == GCD(Abs(n), Abs(d))
    IN  <<(s * n) \div g, (s * d) \div g>>

R(i) == <<i, 1>>
Zero == <<0, 1>>
One == <<1, 1>>
Half == <<1, 2>>

RNeg(x) == <<-x[1], x[2]>>

RAdd(x, y) ==
    LET g == GCD(x[2], y[2])
    IN  Rat(x[1] * (y[2] \div g) + y[1] * (x[2] \div g), x[2] * (y[2] \div g))

RSub(x, y) == RAdd(x, RNeg(y))

RMul(x, y) ==
    LET g1 == GCD(Abs(x[1]), y[2])
        g2 == GCD(Abs(y[1]), x[2])
    IN  Rat((x[1] \div g1) * (y[1] \div g2), (x[2] \div g2) * (y[2] \div g1))

RInv(x) == IF x[1] < 0 THEN <<-x[2], -x[1]>> ELSE <<x[2], x[1]>>

RDiv(x, y) == RMul(x, RInv(y))

RLe(x, y) == RSub(x, y)[1] <= 0
RLt(x, y) == RSub(x, y)[1] < 0
RMin(x, y) == IF RLe(x, y) THEN x ELSE y
RMax(x, y) == IF RLe(x, y) THEN y ELSE x
RAbs(x) == <<Abs(x[1]), x[2]>>

\* x > 1/k and x <= 1/k for a positive integer k, without forming x[1] * k
RGtInv(x, k) == x[1] > x[2] \div k
RLeInv(x, k) == ~RGtInv(x, k)

RECURSIVE RPow(_, _)
RPow(x, k) == IF k = 0 THEN One ELSE RMul(x, RPow(x, k - 1))

\* an array with its entries computed once
Arr(s) == s \o << >>

\* np.sum of an array
RECURSIVE RSumTo(_, _)
RSumTo(s, k) == IF k = 0 THEN Zero ELSE RAdd(RSumTo(s, k - 1), s[k])
RSum(s) == RSumTo(s, Len(s))

\* np.cumsum of an array
CumSum(s) == Arr([k \in 1..Len(s) |-> RSumTo(s, k)])

\* a[1:] - a[:-1]
Diff(c) == Arr([j \in 1..(Len(c) - 1) |-> RSub(c[j + 1], c[j])])

\* a / s, elementwise
Scale(a, s) == Arr([j \in 1..Len(a) |-> RDiv(a[j], s)])

\* np.arange(lo, hi) as a sequence of rationals
Arange(lo, hi) == Arr([j \in 1..(IF hi > lo THEN hi - lo ELSE 0) |-> R(lo + j - 1)])

(***************************************************************************)
(* float('inf'), the sentinel of "no upper truncation".                    *)
(***************************************************************************)
Inf == -1

(***************************************************************************)
(* config.PROB_TOLERANCE is 1 / ProbToleranceInv.                          *)
(***************************************************************************)
ProbToleranceInv == 1000000

(***************************************************************************)
(* The severity model: uniform on [0, T], shifted by loc.  cdf takes the   *)
(* loss itself, lev the loss net of loc, as the calculators call them.     *)
(***************************************************************************)
Severities == {[T |-> 4, loc |-> 0], [T |-> 8, loc |-> 1]}

Clip01(x) == RMax(Zero, RMin(One, x))

cdf(sev, x) == Clip01(RDiv(RSub(x, R(sev.loc)), R(sev.T)))

\* E[min(X, v)] for X uniform on [0, T]
lev(sev, v) ==
    IF RLe(v, Zero) THEN v
    ELSE IF RLe(R(sev.T), v) THEN Rat(sev.T, 2)
    ELSE RSub(v, RDiv(RMul(v, v), R(2 * sev.T)))

den(sev, low, loc) == RSub(One, Clip01(RDiv(RSub(low, R(loc)), R(sev.T))))

ppf(sev, p) == RAdd(R(sev.loc), RMul(p, R(sev.T)))

(***************************************************************************)
(* Severity discretization.                                                *)
(***************************************************************************)
Finite(exit_point) == exit_point # Inf

\* severity.loc + np.arange(0, n_discr_nodes) * discr_step
Grid(sev, discr_step, n_discr_nodes) ==
    Arr([j \in 1..n_discr_nodes |-> R(sev.loc + (j - 1) * discr_step)])

\* np.concatenate((nodes, [nodes[-1] + discr_step]))
ExtendNodes(nodes, discr_step) ==
    Append(nodes, RAdd(nodes[Len(nodes)], R(discr_step)))

\* severity.model.cdf(deductible + nodes * discr_step), elementwise
CdfAt(sev, deductible, nodes, discr_step) ==
    Arr([j \in 1..Len(nodes) |->
            cdf(sev, RAdd(R(deductible), RMul(nodes[j], R(discr_step))))])

\* the survival probability at the deductible, 1 - cdf(deductible)
Survival(sev, deductible) == RSub(One, cdf(sev, R(deductible)))

mass_dispersal_boundary_mut(exit_point, discr_step) ==
    RSub(R(exit_point), R(discr_step))

mass_dispersal_boundary(exit_point, discr_step) ==
    RSub(R(exit_point), RMul(R(discr_step), Half))

mass_dispersal(sev, deductible, exit_point, discr_step, n_discr_nodes) ==
    LET S == Survival(sev, deductible)
        f0 == RDiv(RSub(cdf(sev, RAdd(R(deductible), RMul(R(discr_step), Half))),
                        cdf(sev, R(deductible))), S)
        half == Arr([j \in 1..n_discr_nodes |-> RAdd(R(j - 1), Half)])
        fj0 == <<f0>> \o Scale(Diff(CdfAt(sev, deductible, half, discr_step)), S)
        fj == IF Finite(exit_point)
              THEN Append(fj0,
                     RDiv(RSub(One, cdf(sev, mass_dispersal_boundary(exit_point, discr_step))), S))
              ELSE fj0
        nodes0 == Grid(sev, discr_step, n_discr_nodes)
        nodes == IF Finite(exit_point) THEN ExtendNodes(nodes0, discr_step) ELSE nodes0
    IN  [nodes |-> nodes, fj |-> fj]

lower_discretization_boundary_mut(exit_point, discr_step) ==
    RSub(R(exit_point), RMul(R(discr_step), Half))

lower_discretization_boundary(exit_point, discr_step) ==
    RSub(R(exit_point), R(discr_step))

lower_discretization(sev, deductible, exit_point, discr_step, n_discr_nodes) ==
    LET S == Survival(sev, deductible)
        f0 == RDiv(RSub(cdf(sev, R(deductible)), cdf(sev, R(deductible))), S)
        idx == Arange(0, n_discr_nodes)
        fj0 == <<f0>> \o Scale(Diff(CdfAt(sev, deductible, idx, discr_step)), S)
        fj == IF Finite(exit_point)
              THEN Append(fj0,
                     RDiv(RSub(One, cdf(sev, lower_discretization_boundary(exit_point, discr_step))), S))
              ELSE fj0
        nodes0 == Grid(sev, discr_step, n_discr_nodes)
        nodes == IF Finite(exit_point) THEN ExtendNodes(nodes0, discr_step) ELSE nodes0
    IN  [nodes |-> nodes, fj |-> fj]

upper_discretization(sev, deductible, exit_point, discr_step, n_discr_nodes) ==
    LET S == Survival(sev, deductible)
        idx == Arange(0, n_discr_nodes + 1)
        fj0 == Scale(Diff(CdfAt(sev, deductible, idx, discr_step)), S)
        fj == IF Finite(exit_point)
              THEN Append(fj0, RDiv(RSub(One, cdf(sev, R(exit_point))), S))
              ELSE fj0
        nodes == Grid(sev, discr_step, n_discr_nodes)
    IN  [nodes |-> nodes, fj |-> fj]

\* an array of zero or one entries: np.array([]) when there is no truncation
upper_discr_point_prob_adjuster(sev, deductible, exit_point, discr_step) ==
    IF ~Finite(exit_point) THEN << >>
    ELSE <<RDiv(RSub(lev(sev, R(exit_point - sev.loc)),
                     lev(sev, R(exit_point - sev.loc - discr_step))),
                RMul(R(discr_step), den(sev, R(deductible), sev.loc)))>>

local_moments(sev, deductible, exit_point, discr_step, n_discr_nodes) ==
    LET last_node_prob ==
            upper_discr_point_prob_adjuster(sev, deductible, exit_point, discr_step)
        L(k) == lev(sev, R(deductible - sev.loc + k * discr_step))
        n == RSub(L(1), L(0))
        dn == RMul(R(discr_step), den(sev, R(deductible), sev.loc))
        nj == Arr([j \in 1..(n_discr_nodes - 1) |->
                     RSub(RSub(RMul(R(2), L(j)), L(j - 1)), L(j + 1))])
        fj == <<RSub(One, RDiv(n, dn))>> \o Scale(nj, dn)
        nodes0 == Grid(sev, discr_step, n_discr_nodes)
        nodes == IF Finite(exit_point) THEN ExtendNodes(nodes0, discr_step) ELSE nodes0
    IN  [nodes |-> nodes, fj |-> fj \o last_node_prob]

(***************************************************************************)
(* Inputs of the discretization methods: deductible d, step h, node count  *)
(* n, and an exit point that is infinite or d + k*h at or beyond the end   *)
(* d + n*h of the grid.                                                    *)
(***************************************************************************)
Deductibles == {0, 1}
Steps == {1, 2}
ExitPoints(d, h, n) == {Inf} \cup {d + k * h : k \in n..(MaxNodes + 1)}

Methods == {"mass_dispersal", "lower_discretization", "upper_discretization",
            "local_moments"}

Discretize(method, sev, d, u, h, n) ==
    CASE method = "mass_dispersal" -> mass_dispersal(sev, d, u, h, n)
      [] method = "lower_discretization" -> lower_discretization(sev, d, u, h, n)
      [] method = "upper_discretization" -> upper_discretization(sev, d, u, h, n)
      [] method = "local_moments" -> local_moments(sev, d, u, h, n)

NoCall == [op |-> "none"]

\* well-formed inputs: the severity has mass above the deductible
DiscretizationInputs ==
    {in \in UNION {{[severity |-> sev, deductible |-> d, exit_point |-> u,
                     discr_step |-> h, n_discr_nodes |-> n] : u \in ExitPoints(d, h, n)} :
                      sev \in Severities, d \in Deductibles, h \in Steps,
                      n \in 1..MaxNodes} :
        RLt(cdf(in.severity, R(in.deductible)), One)}

\* the call of a discretization method and the record it returns
Returned(method, in) ==
    [op |-> method, out |-> Discretize(method, in.severity, in.deductible,
                               in.exit_point, in.discr_step, in.n_discr_nodes)] @@ in

MassDispersal ==
    /\ call = NoCall
    /\ \E in \in DiscretizationInputs : call' = Returned("mass_dispersal", in)
    /\ UNCHANGED np_random_state

LowerDiscretization ==
    /\ call = NoCall
    /\ \E in \in DiscretizationInputs : call' = Returned("lower_discretization", in)
    /\ UNCHANGED np_random_state

UpperDiscretization ==
    /\ call = NoCall
    /\ \E in \in DiscretizationInputs : call' = Returned("upper_discretization", in)
    /\ UNCHANGED np_random_state

LocalMoments ==
    /\ call = NoCall
    /\ \E in \in DiscretizationInputs : call' = Returned("local_moments", in)
    /\ UNCHANGED np_random_state

(***************************************************************************)
(* The frequency model: binomial(n, p), a member of the (a, b, 0) class    *)
(* with a = -p/(1-p) # 0.                                                  *)
(***************************************************************************)
Frequencies == {[n |-> 1, p |-> <<1, 2>>], [n |-> 2, p |-> <<1, 3>>]}

RECURSIVE Binomial(_, _)
Binomial(n, k) ==
    IF k = 0 THEN 1
    ELSE IF k > n THEN 0
    ELSE Binomial(n - 1, k - 1) + Binomial(n - 1, k)

\* frequency.model.pmf(k)
pmf(freq, k) ==
    IF k > freq.n THEN Zero
    ELSE RMul(R(Binomial(freq.n, k)),
              RMul(RPow(freq.p, k), RPow(RSub(One, freq.p), freq.n - k)))

\* the probability generating function at a number f
pgf(freq, f) == RPow(RAdd(One, RMul(freq.p, RSub(f, One))), freq.n)

\* frequency.abp0g0(fj): (a, b, p0, g0), g0 an array of one entry
abp0g0(freq, fj) ==
    LET q == RSub(One, freq.p)
    IN  [a |-> RNeg(RDiv(freq.p, q)),
         b |-> RMul(R(freq.n + 1), RDiv(freq.p, q)),
         p0 |-> RPow(q, freq.n),
         g |-> <<pgf(freq, fj[1])>>]

(***************************************************************************)
(* Aggregate loss distribution: steps shared by the FFT method and the     *)
(* Panjer recursion.                                                       *)
(***************************************************************************)
\* np.append(fj, np.repeat(0, n_aggr_dist_nodes - fj.shape[0]))
ZeroPad(fj, n_aggr_dist_nodes) ==
    fj \o [k \in 1..(n_aggr_dist_nodes - Len(fj)) |-> Zero]

NormalizeMut(g) == g

\* g / np.sum(g)
Normalize(g) == Scale(g, RSum(g))

\* np.minimum(np.cumsum(g), 1)
CumProbs(g) == LET c == CumSum(g) IN Arr([k \in 1..Len(g) |-> RMin(c[k], One)])

ShortfallMut(cum_probs) ==
    RGtInv(RSub(One, cum_probs[1]), ProbToleranceInv)

\* (1 - cum_probs[-1]) > config.PROB_TOLERANCE
Shortfall(cum_probs) ==
    RGtInv(RSub(One, cum_probs[Len(cum_probs)]), ProbToleranceInv)

\* "{:.4f}".format(x) for x in [0, 1], as the number of ten-thousandths:
\* the decimal expansion rounded to four places, ties to the even digit
Format4f(x) ==
    LET d == x[2]
        r0 == x[1] % d
        d1 == (r0 * 10) \div d
        r1 == (r0 * 10) % d
        d2 == (r1 * 10) \div d
        r2 == (r1 * 10) % d
        d3 == (r2 * 10) \div d
        r3 == (r2 * 10) % d
        d4 == (r3 * 10) \div d
        r4 == (r3 * 10) % d
        t == (x[1] \div d) * 10000 + d1 * 1000 + d2 * 100 + d3 * 10 + d4
    IN  IF 2 * r4 > d \/ (2 * r4 = d /\ t % 2 = 1) THEN t + 1 ELSE t

\* the logger: the warnings emitted by the call, each carrying the text's
\* formatted number
Warnings(cum_probs) ==
    IF Shortfall(cum_probs) THEN <<Format4f(cum_probs[Len(cum_probs)])>> ELSE << >>

\* discr_step * np.arange(0, n_aggr_dist_nodes, step=1)
AggrNodes(discr_step, n_aggr_dist_nodes) ==
    Arr([k \in 1..n_aggr_dist_nodes |-> R(discr_step * (k - 1))])

\* from the computed pmf g to the returned record; pmf, computed and warnings
\* record the arrays and the log of the call beside the returned cdf and nodes
Finish(g, normalize, discr_step, n_aggr_dist_nodes) ==
    LET g1 == IF normalize THEN Normalize(g) ELSE g
        cum_probs == CumProbs(g1)
    IN  [computed |-> g, pmf |-> g1, warnings |-> Warnings(cum_probs),
         cdf |-> cum_probs, nodes |-> AggrNodes(discr_step, n_aggr_dist_nodes)]

(***************************************************************************)
(* FFT method.  The discrete Fourier transform turns cyclic convolution of *)
(* length n_aggr_dist_nodes into the elementwise product, so               *)
(* ifft(pgf(fft(x))) is the pgf evaluated in the ring of sequences under   *)
(* cyclic convolution: for the binomial pgf (1 + p*(f - 1))^n, the n-fold  *)
(* cyclic convolution power of (1 - p)*delta_0 + p*x.                      *)
(***************************************************************************)
CircConv(x, y, m) ==
    Arr([k \in 1..m |->
            RSum(Arr([i \in 1..m |-> RMul(x[i], y[((k - i) % m) + 1])]))])

RECURSIVE CircPow(_, _, _)
CircPow(y, n, m) ==
    IF n = 0 THEN Arr([k \in 1..m |-> IF k = 1 THEN One ELSE Zero])
    ELSE CircConv(CircPow(y, n - 1, m), y, m)

\* np.real(ifft(frequency.model.pgf(f=fft(x)))), up to rounding
TransformPgf(freq, x, m) ==
    LET y == Arr([k \in 1..m |->
                     RAdd(IF k = 1 THEN RSub(One, freq.p) ELSE Zero, RMul(freq.p, x[k]))])
    IN  CircPow(y, freq.n, m)

\* tilt_value: the tilting parameter ln 2, for which exp(-tilting_par * k) is
\* the rational 2^-k (the default 20 / n_aggr_dist_nodes of a tilt_value of
\* None has an irrational factor and is not among the inputs)
None == "None"
Ln2 == "ln2"

\* exp(-tilting_par)
ExpNegTilt(tilt, tilt_value) == IF tilt /\ tilt_value = Ln2 THEN Half ELSE One

\* The inverse transform is computed in floating point through irrational
\* twiddle factors: its last entry carries a rounding error, ifft_err units
\* of 1 / RoundingInv.
RoundingInv == 16384
RoundingErrors == {-1, 0, 1}

fast_fourier_transform(severity, frequency, n_aggr_dist_nodes, discr_step, tilt, tilt_value, normalize, ifft_err) ==
    LET m == n_aggr_dist_nodes
        r == ExpNegTilt(tilt, tilt_value)
        fj == ZeroPad(severity.fj, m)
        tilted == Arr([k \in 1..m |-> RMul(RPow(r, k - 1), fj[k])])
        exact == TransformPgf(frequency, tilted, m)
        real == Arr([k \in 1..m |->
                        IF k = m THEN RAdd(exact[k], Rat(ifft_err, RoundingInv))
                        ELSE exact[k]])
        g == Arr([k \in 1..m |-> RMul(RPow(RInv(r), k - 1), real[k])])
    IN  Finish(g, normalize, discr_step, m)

(***************************************************************************)
(* Panjer recursion.  A Python list g is the sequence of its entries, g[0] *)
(* first.                                                                  *)
(***************************************************************************)
\* s[lo:hi]
PySlice(s, lo, hi) == SubSeq(s, lo + 1, IF hi < Len(s) THEN hi ELSE Len(s))

\* s[::-1]
Reverse(s) == Arr([k \in 1..Len(s) |-> s[Len(s) + 1 - k]])

\* np.insert(g, 0, x)
Prepend(g, x) == <<x>> \o g

PanjerTermMut(a, b, fj, g, j) ==
    LET w == Arr([i \in 1..j |-> RAdd(a, RDiv(RMul(b, R(i - 1)), R(j)))])
        f == PySlice(fj, 1, j + 1)
        h == PySlice(g, 0, j)
    IN  RSum(Arr([i \in 1..j |-> RMul(RMul(w[i], f[i]), h[i])]))

\* np.sum((a + b * np.arange(1, j + 1) / j) * fj[1:(j+1)] * g[:j])
PanjerTerm(a, b, fj, g, j) ==
    LET w == Arr([i \in 1..j |-> RAdd(a, RDiv(RMul(b, R(i)), R(j)))])
        f == PySlice(fj, 1, j + 1)
        h == PySlice(g, 0, j)
    IN  RSum(Arr([i \in 1..j |-> RMul(RMul(w[i], f[i]), h[i])]))

\* the loop for j in range(j, n_aggr_dist_nodes); steps lists the terms in
\* the order in which they are computed
RECURSIVE PanjerLoop(_, _, _, _, _, _, _)
PanjerLoop(a, b, fj, g, steps, j, m) ==
    IF j >= m THEN [g |-> g, steps |-> steps]
    ELSE LET t == PanjerTerm(a, b, fj, g, j)
         IN  PanjerLoop(a, b, fj, Prepend(g, t), Append(steps, t), j + 1, m)

panjer_recursion(frequency, severity, n_aggr_dist_nodes, discr_step, normalize) ==
    LET m == n_aggr_dist_nodes
        c == abp0g0(frequency, severity.fj)
        fj == ZeroPad(severity.fj, m)
        fpmf == pmf(frequency, 1)
        loop == PanjerLoop(c.a, c.b, fj, c.g, << >>, 1, m)
        rev == Reverse(loop.g)
        k0 == RSub(fpmf, RMul(RAdd(c.a, c.b), c.p0))
        dn == RSub(One, RMul(c.a, fj[1]))
        g == Arr([k \in 1..m |-> RDiv(RAdd(RMul(k0, fj[k]), rev[k]), dn)])
    IN  [steps |-> loop.steps] @@ Finish(g, normalize, discr_step, m)

(***************************************************************************)
(* Inputs of the two methods: a discretized severity returned by one of    *)
(* the discretization methods for a zero deductible and an exit point that *)
(* is infinite or the end of the grid, whose masses sum to 1, with at most *)
(* n_aggr_dist_nodes entries.                                              *)
(***************************************************************************)
DiscretizedSeverities ==
    {s \in UNION {{Discretize(method, sev, 0, u, h, n) : u \in {Inf, n * h}} :
                     method \in Methods, sev \in Severities, h \in Steps,
                     n \in 1..MaxNodes} :
        RSum(s.fj) = One}

FastFourierTransform ==
    /\ call = NoCall
    /\ \E severity \in DiscretizedSeverities, frequency \in Frequencies,
          normalize \in BOOLEAN, tilt \in BOOLEAN :
         \E m \in Len(severity.fj)..MaxAggrNodes, ifft_err \in RoundingErrors :
            LET tilt_value == IF tilt THEN Ln2 ELSE None
            IN  call' = [op |-> "fast_fourier_transform", severity |-> severity,
                         frequency |-> frequency, n_aggr_dist_nodes |-> m,
                         discr_step |-> 1, tilt |-> tilt, tilt_value |-> tilt_value,
                         normalize |-> normalize, ifft_err |-> ifft_err,
                         severity_after |-> severity,
                         out |-> fast_fourier_transform(severity, frequency, m, 1,
                                     tilt, tilt_value, normalize, ifft_err)]
    /\ UNCHANGED np_random_state

PanjerRecursion ==
    /\ call = NoCall
    /\ \E severity \in DiscretizedSeverities, frequency \in Frequencies,
          normalize \in BOOLEAN :
         \E m \in Len(severity.fj)..MaxAggrNodes :
            call' = [op |-> "panjer_recursion", severity |-> severity,
                     frequency |-> frequency, n_aggr_dist_nodes |-> m,
                     discr_step |-> 1, normalize |-> normalize,
                     severity_after |-> severity,
                     out |-> panjer_recursion(frequency, severity, m, 1, normalize)]
    /\ UNCHANGED np_random_state

(***************************************************************************)
(* Monte Carlo simulation.  np_random_state is the state of the process-   *)
(* wide generator of numpy.random, a linear congruential generator here:   *)
(* np.random.seed sets it, each uniform draw reads and advances it.        *)
(***************************************************************************)
RngModulus == 8
RngMultiplier == 5
RngIncrement == 3

\* np.random.seed(s)
RngSeed(s) == s % RngModulus

RngNext(state) == (RngMultiplier * state + RngIncrement) % RngModulus

RECURSIVE RngAdvance(_, _)
RngAdvance(state, k) == IF k = 0 THEN state ELSE RngAdvance(RngNext(state), k - 1)

\* np.random.uniform(low=low, high=1.0, size=size) from the given state
Uniform(state, low, size) ==
    Arr([i \in 1..size |->
            RAdd(low, RMul(RSub(One, low), Rat(RngAdvance(state, i - 1), RngModulus)))])

\* frequency.model.rvs(n_sim, random_state): the possible samples of counts
ClaimCounts(n_sim) == [1..n_sim -> 0..MaxClaims]

\* np.cumsum(fqsample).astype(int), for a sequence of integers
RECURSIVE IntSumTo(_, _)
IntSumTo(s, k) == IF k = 0 THEN 0 ELSE IntSumTo(s, k - 1) + s[k]

SplitMut(ary, indices) ==
    Arr([k \in 1..(Len(indices) + 1) |->
            PySlice(ary,
                    IF k = 1 THEN 0 ELSE indices[k - 1] + 1,
                    IF k = Len(indices) + 1 THEN Len(ary) ELSE indices[k])])

\* np.split(ary, indices): ary[:i1], ary[i1:i2], ..., ary[ik:]
Split(ary, indices) ==
    Arr([k \in 1..(Len(indices) + 1) |->
            PySlice(ary,
                    IF k = 1 THEN 0 ELSE indices[k - 1],
                    IF k = Len(indices) + 1 THEN Len(ary) ELSE indices[k])])

\* the least element of a non-empty set of numbers
RMinimum(S) == CHOOSE x \in S : \A y \in S : RLe(x, y)

\* np.unique(x): the sorted distinct entries
RECURSIVE SortedSet(_)
SortedSet(S) ==
    IF S = {} THEN << >>
    ELSE LET x == RMinimum(S) IN <<x>> \o SortedSet(S \ {x})

Unique(x) == SortedSet({x[i] : i \in 1..Len(x)})

\* hf.ecdf(x)(t): the share of the entries of x that are at most t
ecdf(x, t) == Rat(Cardinality({i \in 1..Len(x) : RLe(x[i], t)}), Len(x))

\* np.minimum(x, cover), cover possibly float('inf')
CapAt(x, cover) == IF cover = Inf THEN x ELSE RMin(x, R(cover))

mc_simulation(sev, fqsample, cover, deductible, n_sim, random_state) ==
    LET p0 == IF deductible > 0 THEN cdf(sev, R(deductible)) ELSE Zero
        total == IntSumTo(fqsample, Len(fqsample))
        seeded == RngSeed(random_state + 1)
        draws == Uniform(seeded, p0, total)
        svsample == Arr([i \in 1..total |->
                            CapAt(RSub(ppf(sev, draws[i]), R(deductible)), cover)])
        cs == PySlice(Arr([k \in 1..n_sim |-> IntSumTo(fqsample, k)]), 0, n_sim - 1)
        groups == Split(svsample, cs)
        xsim == Arr([k \in 1..Len(groups) |-> RSum(groups[k])])
        x_ == Unique(xsim)
        cdf_ == Arr([k \in 1..Len(x_) |-> ecdf(xsim, x_[k])])
    IN  [svsample |-> svsample, groups |-> groups, xsim |-> xsim,
         rng |-> RngAdvance(seeded, total),
         cdf |-> cdf_, nodes |-> x_]

Covers == {2, Inf}

McSimulation ==
    /\ call = NoCall
    /\ \E sev \in Severities, cover \in Covers, deductible \in Deductibles,
          n_sim \in 1..MaxSim, random_state \in 0..MaxSeed :
         \E fqsample \in ClaimCounts(n_sim) :
            LET r == mc_simulation(sev, fqsample, cover, deductible, n_sim, random_state)
            IN  /\ call' = [op |-> "mc_simulation", severity |-> sev, cover |-> cover,
                            deductible |-> deductible, n_sim |-> n_sim,
                            random_state |-> random_state, fqsample |-> fqsample,
                            out |-> r]
                /\ np_random_state' = r.rng

(***************************************************************************)
(* The class keeps nothing between calls: the caller takes the returned    *)
(* record and the next call starts from the class alone.                   *)
(***************************************************************************)
Discard ==
    /\ call # NoCall
    /\ call' = NoCall
    /\ UNCHANGED np_random_state

Init ==
    /\ call = NoCall
    /\ np_random_state = 0

Next ==
    \/ MassDispersal
    \/ LowerDiscretization
    \/ UpperDiscretization
    \/ LocalMoments
    \/ FastFourierTransform
    \/ PanjerRecursion
    \/ McSimulation
    \/ Discard

Spec == Init /\ [][Next]_vars

(***************************************************************************)
(* Properties of the discretization methods.                               *)
(***************************************************************************)
IsDiscretization == call.op \in Methods

GridEndsAtExit ==
    call.exit_point = call.deductible + call.n_discr_nodes * call.discr_step

WithinTolerance(x) == RLeInv(RAbs(RSub(One, x)), ProbToleranceInv)

\* C1: for each of the four discretization methods and every n >= 1, nodes
\* and fj both have n entries when exit_point is infinite and both have n + 1
\* entries when it is finite, so that nodes and fj always have the same length.
C1_NodesAndMassesSameLength ==
    IsDiscretization =>
        LET k == IF Finite(call.exit_point) THEN call.n_discr_nodes + 1
                 ELSE call.n_discr_nodes
        IN  /\ Len(call.out.nodes) = k
            /\ Len(call.out.fj) = k

\* C2 as stated: for each discretization method and all well-formed inputs,
\* fj sums to 1 within PROB_TOLERANCE.
C2_MassSumsToOne ==
    IsDiscretization => WithinTolerance(RSum(call.out.fj))

\* C2, amended: for each discretization method, fj sums to 1 within
\* PROB_TOLERANCE when exit_point is finite and equal to
\* deductible + n_discr_nodes * discr_step.
C2_MassSumsToOneOnClosedGrid ==
    (IsDiscretization /\ Finite(call.exit_point) /\ GridEndsAtExit)
        => WithinTolerance(RSum(call.out.fj))

C2_Witness ==
    /\ call.op = "lower_discretization"
    /\ Finite(call.exit_point)
    /\ GridEndsAtExit
    /\ call.n_discr_nodes >= 2
    /\ RLt(Zero, call.out.fj[2])
    /\ RLt(Zero, call.out.fj[call.n_discr_nodes + 1])
    /\ RSum(call.out.fj) = One

\* C3 as stated: mass_dispersal appends no extra node for an infinite
\* exit_point and exactly one for a finite exit_point, whose mass is the
\* probability not assigned to the preceding n buckets,
\* fj[n] = 1 - sum(fj[0..n-1]).
C3_TerminalMassIsComplement ==
    call.op = "mass_dispersal" =>
        LET n == call.n_discr_nodes
        IN  IF Finite(call.exit_point)
            THEN /\ Len(call.out.nodes) = n + 1
                 /\ Len(call.out.fj) = n + 1
                 /\ call.out.fj[n + 1] = RSub(One, RSumTo(call.out.fj, n))
            ELSE /\ Len(call.out.nodes) = n
                 /\ Len(call.out.fj) = n

\* C3, amended: mass_dispersal appends no extra node for an infinite
\* exit_point and exactly one for a finite exit_point u, whose mass is the
\* conditional tail probability beyond u - h/2,
\* (1 - cdf(u - h/2)) / (1 - cdf(d)); that mass equals 1 - sum(fj[0..n-1])
\* when u = d + n*h.
C3_TerminalMassIsTailBeyondExit ==
    call.op = "mass_dispersal" =>
        LET n == call.n_discr_nodes
            u == call.exit_point
            h == call.discr_step
            tail == RDiv(RSub(One, cdf(call.severity, RSub(R(u), Rat(h, 2)))),
                         RSub(One, cdf(call.severity, R(call.deductible))))
        IN  IF Finite(u)
            THEN /\ Len(call.out.nodes) = n + 1
                 /\ Len(call.out.fj) = n + 1
                 /\ call.out.fj[n + 1] = tail
                 /\ GridEndsAtExit =>
                        call.out.fj[n + 1] = RSub(One, RSumTo(call.out.fj, n))
            ELSE /\ Len(call.out.nodes) = n
                 /\ Len(call.out.fj) = n

C3_Witness ==
    /\ call.op = "mass_dispersal"
    /\ Finite(call.exit_point)
    /\ GridEndsAtExit
    /\ RLt(Zero, call.out.fj[call.n_discr_nodes + 1])
    /\ RLt(call.out.fj[call.n_discr_nodes + 1], One)

(***************************************************************************)
(* Properties of the aggregate-loss methods.                               *)
(***************************************************************************)
IsAggregation == call.op \in {"fast_fourier_transform", "panjer_recursion"}

Last(s) == s[Len(s)]

CarriesShortfall(w, cum_probs) ==
    LET shortfall == RSub(One, Last(cum_probs))
    IN  Rat(w, 10000) = shortfall \/ w = Format4f(shortfall)

\* C5 as stated: in fast_fourier_transform and panjer_recursion a final
\* cumulative probability short of 1 never raises; a warning is emitted if
\* and only if 1 - cdf[-1] > PROB_TOLERANCE, the warning carries the actual
\* shortfall value, and with or without the warning the method returns its
\* {cdf, nodes} unchanged by the check.
C5_WarningCarriesShortfall ==
    IsAggregation =>
        /\ Len(call.out.warnings) =
              (IF RGtInv(RSub(One, Last(call.out.cdf)), ProbToleranceInv) THEN 1 ELSE 0)
        /\ \A i \in 1..Len(call.out.warnings) :
              CarriesShortfall(call.out.warnings[i], call.out.cdf)
        /\ call.out.cdf = CumProbs(call.out.pmf)
        /\ call.out.nodes = AggrNodes(call.discr_step, call.n_aggr_dist_nodes)

\* C5, amended: in fast_fourier_transform and panjer_recursion a final
\* cumulative probability short of 1 never raises; a warning is emitted if
\* and only if 1 - cdf[-1] > PROB_TOLERANCE, the warning carries the last
\* cumulative probability cdf[-1] formatted to four decimal places, and with
\* or without the warning the method returns its {cdf, nodes} unchanged by
\* the check.
C5_WarningCarriesLastCumulative ==
    IsAggregation =>
        /\ Len(call.out.warnings) =
              (IF RGtInv(RSub(One, Last(call.out.cdf)), ProbToleranceInv) THEN 1 ELSE 0)
        /\ \A i \in 1..Len(call.out.warnings) :
              LET t == call.out.warnings[i]
                  x == Last(call.out.cdf)
              IN  \* |cdf[-1] - t / 10^4| <= 1 / (2 * 10^4)
                  RLeInv(RAbs(RSub(x, Rat(t, 10000))), 20000)
        /\ call.out.cdf = CumProbs(call.out.pmf)
        /\ call.out.nodes = AggrNodes(call.discr_step, call.n_aggr_dist_nodes)

C5_Witness ==
    /\ call.op = "panjer_recursion"
    /\ call.out.warnings # << >>
    /\ RLt(Last(call.out.cdf), One)
    /\ ~CarriesShortfall(call.out.warnings[1], call.out.cdf)

\* the aggregate of the call's severity and frequency has no mass beyond
\* node n_aggr_dist_nodes - 1
NoWrapAround ==
    call.frequency.n * (Len(call.severity.fj) - 1) + 1 <= call.n_aggr_dist_nodes

\* C6: given the same discretized severity fj (fj[0] > 0 included), the same
\* frequency model of the (a, b, 0) class, the same node count m and step h,
\* and no tilting, panjer_recursion and fast_fourier_transform return the
\* same nodes and cdf arrays that agree at every node within a small
\* tolerance (1e-4), whenever the aggregate pmf has no mass beyond node m-1.
C6_PanjerAgreesWithFft ==
    (call.op = "panjer_recursion" /\ NoWrapAround) =>
        LET f == fast_fourier_transform(call.severity, call.frequency,
                     call.n_aggr_dist_nodes, call.discr_step, FALSE, None,
                     call.normalize, 0)
        IN  /\ call.out.nodes = f.nodes
            /\ Len(call.out.cdf) = Len(f.cdf)
            /\ \A i \in 1..Len(f.cdf) :
                  RLeInv(RAbs(RSub(call.out.cdf[i], f.cdf[i])), 10000)

\* C7: when normalize is enabled in fast_fourier_transform or
\* panjer_recursion the pmf g behind the cdf sums to exactly 1, so the last
\* cdf entry equals 1 and no shortfall warning is emitted; when normalize is
\* disabled the sum of g is left as computed (and may fall short of 1).
C7_NormalizedSumsToOne ==
    IsAggregation =>
        IF call.normalize
        THEN /\ RSum(call.out.pmf) = One
             /\ Last(call.out.cdf) = One
             /\ call.out.warnings = << >>
        ELSE /\ call.out.pmf = call.out.computed
             /\ RSum(call.out.pmf) = RSum(call.out.computed)

C7_Witness ==
    /\ IsAggregation
    /\ call.normalize
    /\ RGtInv(RSub(One, RSum(call.out.computed)), ProbToleranceInv)
    /\ call.out.pmf # call.out.computed

\* the number of draws before group k
Offset(fqsample, k) == IntSumTo(fqsample, k - 1)

\* C8: in mc_simulation, for any sequence of n_sim simulated claim counts
\* (zeros, consecutive zeros, a zero first or last year included), the capped
\* severity draws are partitioned left to right into exactly n_sim groups,
\* group k holding exactly fqsample[k] consecutive draws, every draw in
\* exactly one group; a zero-claim year yields an empty group whose aggregate
\* loss is 0; the returned nodes are the sorted unique group sums.
C8_DrawsGroupedByYear ==
    call.op = "mc_simulation" =>
        LET fq == call.fqsample
            sv == call.out.svsample
            gr == call.out.groups
            x == call.out.xsim
            nd == call.out.nodes
        IN  /\ Len(sv) = IntSumTo(fq, call.n_sim)
            /\ Len(gr) = call.n_sim
            /\ Len(x) = call.n_sim
            /\ \A k \in 1..call.n_sim :
                  /\ Len(gr[k]) = fq[k]
                  /\ \A i \in 1..fq[k] : gr[k][i] = sv[Offset(fq, k) + i]
                  /\ x[k] = RSum(gr[k])
                  /\ fq[k] = 0 => (gr[k] = << >> /\ x[k] = Zero)
            /\ \A i \in 1..Len(sv) :
                  Cardinality({k \in 1..call.n_sim :
                      Offset(fq, k) < i /\ i <= Offset(fq, k) + fq[k]}) = 1
            /\ {nd[i] : i \in 1..Len(nd)} = {x[k] : k \in 1..call.n_sim}
            /\ \A i \in 1..(Len(nd) - 1) : RLt(nd[i], nd[i + 1])

C8_Witness ==
    /\ call.op = "mc_simulation"
    /\ call.n_sim = 3
    /\ call.fqsample = <<0, 2, 0>>
    /\ call.out.groups[1] = << >>
    /\ Len(call.out.groups[2]) = 2
    /\ call.out.groups[3] = << >>
    /\ Len(call.out.nodes) = 2

\* C9: every discretization and aggregation method is a pure function: after
\* any sequence of calls the caller's inputs are unchanged and no process-wide
\* state is modified; in particular mc_simulation leaves the process-wide
\* random number generator state as it found it.
C9_NoProcessWideStateModified ==
    [][/\ np_random_state' = np_random_state
       /\ call'.op \in {"fast_fourier_transform", "panjer_recursion"}
             => call'.severity_after = call'.severity]_vars

\* C10: in panjer_recursion the term computed at step j (j = 1..m-1, in
\* increasing order) is the sum over i = 1..j of (a + b*i/j) * fj[i] * g[j-i],
\* with fj zero-padded to length m, g[0] the g0 of abp0g0 and g[k] the term
\* of step k; after the final reversal the term of step j sits at position j,
\* aligned with fj[j] in the closing combination
\* ((pmf(1) - (a+b)*p0) * fj[j] + g[j]) / (1 - a*fj[0]).
C10_PanjerTermsAligned ==
    call.op = "panjer_recursion" =>
        LET m == call.n_aggr_dist_nodes
            c == abp0g0(call.frequency, call.severity.fj)
            fj == ZeroPad(call.severity.fj, m)
            steps == call.out.steps
            G(k) == IF k = 0 THEN c.g[1] ELSE steps[k]
            k0 == RSub(pmf(call.frequency, 1), RMul(RAdd(c.a, c.b), c.p0))
            dn == RSub(One, RMul(c.a, fj[1]))
        IN  /\ Len(steps) = m - 1
            /\ \A j \in 1..(m - 1) :
                  steps[j] = RSum(Arr([i \in 1..j |->
                                 RMul(RMul(RAdd(c.a, RDiv(RMul(c.b, R(i)), R(j))),
                                           fj[i + 1]), G(j - i))]))
            /\ \A j \in 0..(m - 1) :
                  call.out.computed[j + 1] =
                      RDiv(RAdd(RMul(k0, fj[j + 1]), G(j)), dn)

C10_Witness ==
    /\ call.op = "panjer_recursion"
    /\ call.n_aggr_dist_nodes >= 4
    /\ RLt(Zero, call.severity.fj[1])
    /\ Len(call.severity.fj) >= 3
    /\ RLt(Zero, call.out.steps[3])
    /\ call.out.steps[1] # call.out.steps[3]

====
